---- MODULE Spec2Model ----
(***************************************************************************)
(* A model of dither.cpp: the interleaved-gradient-noise dither, the       *)
(* ordered (Bayer) dither, the RGB565 / RGBA4444 codecs and main().        *)
(*                                                                         *)
(* Buffers are sequences; the C element data[k] is the TLA+ element        *)
(* data[k+1].  A float is the record [s, m, e] standing for s * m * 2^e    *)
(* with s in {1,-1} and either m = 0 or 2^23 <= m < 2^24 (IEEE-754         *)
(* binary32, round to nearest even, evaluated operation by operation as    *)
(* a build without contraction or excess precision does).                  *)
(***************************************************************************)
EXTENDS Integers, Sequences, FiniteSets

VARIABLES
    pc,                  \* position in main()
    decoded,             \* what stbi_load returned: [w, h, ch, data], or NoImage
    numchannels, width, height,
    image_input,         \* the working RGBA8888 buffer (the decoder's before that)
    image_output_16bit,  \* as uint16_t elements
    image_output_32bit,
    write_result,        \* return value of stbi_write_png (-1: not called)
    file_written,        \* the output PNG exists
    output_file,         \* its pixels
    stdout_wrote,        \* "Wrote '...'" was printed
    exit_status,         \* the process exit status (-1: still running)
    call, ret,           \* the last direct call of a pure function and its result
    bayer_pc, bayer_n, bayer_M,
    todo, pass_src       \* pixels a split pass has left; the buffers it started from

mainVars == << pc, decoded, numchannels, width, height, image_input,
               image_output_16bit, image_output_32bit, write_result,
               file_written, output_file, stdout_wrote, exit_status >>
callVars == << call, ret >>
bayerVars == << bayer_pc, bayer_n, bayer_M >>
parVars == << todo, pass_src >>
vars == << mainVars, callVars, bayerVars, parVars >>

\* ------------------------------------------------------------------------
\* Bounds of the model
\* ------------------------------------------------------------------------
\* Largest image side the decoder returns in the model.
MaxDim == 2
\* Pixel coordinates handed to getM range over 0..MaxCoord.
MaxCoord == 9
\* Noise values of the quantizer check are k / 2^NoiseBits, k in 0..2^NoiseBits-1.
NoiseBits == 6

\* ------------------------------------------------------------------------
\* binary32 arithmetic (the float operations the source uses)
\* ------------------------------------------------------------------------
FZero == [s |-> 1, m |-> 0, e |-> 0]

Abs(n) == IF n < 0 THEN -n ELSE n

\* Number of bits of m, 1 <= m < 2^31.
BitLen(m) == CHOOSE k \in 1..31 : m \div (2^(k-1)) = 1

\* m / 2^k rounded to nearest, ties to even (k >= 1).
RoundShift(m, k) ==
    LET q == m \div (2^k)
        r == m % (2^k)
        half == 2^(k-1)
    IN  IF r > half \/ (r = half /\ q % 2 = 1) THEN q + 1 ELSE q

\* The float nearest to s * m * 2^e, 0 <= m < 2^31.
FNorm(s, m, e) ==
    IF m = 0 THEN FZero
    ELSE LET L == BitLen(m)
         IN  IF L > 24
             THEN LET k == L - 24
                      q == RoundShift(m, k)
                  IN  IF q = 2^24 THEN [s |-> s, m |-> 2^23, e |-> e + k + 1]
                                  ELSE [s |-> s, m |-> q, e |-> e + k]
             ELSE [s |-> s, m |-> m * 2^(24 - L), e |-> e - (24 - L)]

\* (float)n for an integer n, |n| < 2^31.
FromInt(n) == FNorm(IF n < 0 THEN -1 ELSE 1, Abs(n), 0)

FNeg(a) == IF a.m = 0 THEN a ELSE [a EXCEPT !.s = -a.s]

\* a * b.  The 48-bit product of the mantissas is hi * 2^24 + lo.
FMul(a, b) ==
    IF a.m = 0 \/ b.m = 0 THEN FZero
    ELSE LET ah == a.m \div 4096
             al == a.m % 4096
             bh == b.m \div 4096
             bl == b.m % 4096
             mid == ah * bl + al * bh
             losum == (mid % 4096) * 4096 + al * bl
             lo == losum % (2^24)
             hi == ah * bh + mid \div 4096 + losum \div (2^24)
             top == hi >= 2^23
             q == IF top THEN hi ELSE hi * 2 + lo \div (2^23)
             rem == IF top THEN lo ELSE lo % (2^23)
             half == IF top THEN 2^23 ELSE 2^22
             e == a.e + b.e + (IF top THEN 24 ELSE 23)
             q2 == IF rem > half \/ (rem = half /\ q % 2 = 1) THEN q + 1 ELSE q
         IN  IF q2 = 2^24 THEN [s |-> a.s * b.s, m |-> 2^23, e |-> e + 1]
                          ELSE [s |-> a.s * b.s, m |-> q2, e |-> e]

\* |a| >= |b| for normalised floats.
FMagGeq(a, b) ==
    IF b.m = 0 THEN TRUE
    ELSE IF a.m = 0 THEN FALSE
    ELSE a.e > b.e \/ (a.e = b.e /\ a.m >= b.m)

\* a + b.  The smaller operand is aligned with five guard bits and a sticky bit.
FAdd(a, b) ==
    IF a.m = 0 THEN b
    ELSE IF b.m = 0 THEN a
    ELSE LET big == IF FMagGeq(a, b) THEN a ELSE b
             small == IF FMagGeq(a, b) THEN b ELSE a
             d == big.e - small.e
         IN  IF d > 25 THEN big
             ELSE LET bs == (small.m * 32) \div (2^d)
                      sticky == IF (small.m * 32) % (2^d) = 0 THEN 0 ELSE 1
                      s2 == IF big.s = small.s
                            THEN 2 * (big.m * 32 + bs) + sticky
                            ELSE 2 * (big.m * 32 - bs - sticky) + sticky
                  IN  FNorm(big.s, s2, big.e - 6)

FSub(a, b) == FAdd(a, FNeg(b))

\* a / n for n a power of two (the only divisors the source uses: 4, 8, 16, 64).
FDivPow2(a, n) ==
    IF a.m = 0 THEN a ELSE [a EXCEPT !.e = @ - (BitLen(n) - 1)]

\* a < b
FLess(a, b) ==
    IF a.m = 0 /\ b.m = 0 THEN FALSE
    ELSE IF a.m = 0 THEN b.s = 1
    ELSE IF b.m = 0 THEN a.s = -1
    ELSE IF a.s # b.s THEN a.s = -1
    ELSE IF a.s = 1 THEN ~FMagGeq(a, b)
    ELSE ~FMagGeq(b, a)

\* Conversion of a float to an integer type: truncation toward zero.
Trunc(a) ==
    IF a.m = 0 THEN 0
    ELSE IF a.e >= 0 THEN a.s * a.m * 2^(a.e)
    ELSE IF -a.e > 30 THEN 0
    ELSE a.s * (a.m \div (2^(-a.e)))

\* round(): to the nearest integer, halfway cases away from zero.
Round(a) ==
    IF a.m = 0 THEN 0
    ELSE IF a.e >= 0 THEN a.s * a.m * 2^(a.e)
    ELSE IF -a.e > 30 THEN 0
    ELSE LET q == a.m \div (2^(-a.e))
             r == a.m % (2^(-a.e))
         IN  a.s * (IF r >= 2^(-a.e - 1) THEN q + 1 ELSE q)

\* Conversions to the fixed-width integer types.
ToUint8(n) == n % 256
ToUint16(n) == n % 65536
ToInt8(n) == ((n + 128) % 256) - 128
ToInt16(n) == ((n + 32768) % 65536) - 32768

\* ------------------------------------------------------------------------
\* Pixel buffers
\* ------------------------------------------------------------------------
\* The buffer `buf` with the C element buf[k] set to v.
Store(buf, k, v) == [buf EXCEPT ![k + 1] = v]

\* The C element buf[k].
Load(buf, k) == buf[k + 1]

\* ------------------------------------------------------------------------
\* computeBayerThresholdMap, getM, ditherBayerValue
\* ------------------------------------------------------------------------
BayerTable4 ==
    <<  0,  8,  2, 10,
       12,  4, 14,  6,
        3, 11,  1,  9,
       15,  7, 13,  5 >>

BayerTable8 ==
    <<  0, 32,  8, 40,  2, 34, 10, 42,
       48, 16, 56, 24, 50, 18, 58, 26,
       12, 44,  4, 36, 14, 46,  6, 38,
       60, 28, 52, 20, 62, 30, 54, 22,
        3, 35, 11, 43,  1, 33,  9, 41,
       51, 19, 59, 27, 49, 17, 57, 25,
       15, 47,  7, 39, 13, 45,  5, 37,
       63, 31, 55, 23, 61, 29, 53, 21 >>

\* memcpy(M, m, sizeof(float) * n * n): the table of the branch taken.
BayerMemcpy(n) ==
    LET m == IF n = 4 THEN BayerTable4 ELSE BayerTable8
    IN  [i \in 1..(n * n) |-> FromInt(m[i])]

\* float div = 1.0f / (n*n)
BayerDiv(n) == FDivPow2(FromInt(1), n * n)

\* The normalising loop without the recentring: M[i] = M[i] * div.
BayerNormaliseEntry_noCentre(n, M, i) ==
    Store(M, i, FMul(Load(M, i), BayerDiv(n)))

\* One iteration of the normalising loop: M[i] = M[i] * div - 0.5f.
BayerNormaliseEntry(n, M, i) ==
    Store(M, i, FSub(FMul(Load(M, i), BayerDiv(n)), FDivPow2(FromInt(1), 2)))

\* The table copied, then every entry normalised; iteration i reads and
\* writes M[i] alone.
computeBayerThresholdMap(n) ==
    LET M0 == BayerMemcpy(n)
    IN  [k \in 1..(n * n) |-> Load(BayerNormaliseEntry(n, M0, k - 1), k - 1)]

getM(n, M, x, y) == Load(M, (y % n) * n + (x % n))

clamp255(v) ==
    IF FLess(v, FZero) THEN FZero
    ELSE IF FLess(FromInt(255), v) THEN FromInt(255)
    ELSE v

ditherBayerValue(uv, m, r) ==
    ToUint8(Round(clamp255(FAdd(FromInt(uv), FMul(r, m)))))

\* const float r = 255.0f / n
BayerScale(n) == FDivPow2(FromInt(255), n)

\* ------------------------------------------------------------------------
\* fract, InterleavedGradientNoise, addNoise
\* ------------------------------------------------------------------------
\* v - (int32_t)v
fract(v) == FSub(v, FromInt(Trunc(v)))

Magic0 == [s |-> 1, m |-> 9007427, e |-> -27]
Magic1 == [s |-> 1, m |-> 12535184, e |-> -31]
Magic2 == [s |-> 1, m |-> 13889154, e |-> -18]

InterleavedGradientNoise(u, v) ==
    fract(FMul(Magic2, fract(FAdd(FMul(u, Magic0), FMul(v, Magic1)))))

\* addNoise with the sum kept in a uint8_t.
addNoise_uint8Sum(v_in, noise) ==
    LET v == ToUint8(v_in + noise)
    IN  ToUint8(IF v > 255 THEN 255 ELSE IF v < 0 THEN 0 ELSE v)

\* addNoise without its `else if (v < 0) v = 0` branch.
addNoise_noLowerClamp(v_in, noise) ==
    LET v == ToInt16(v_in + noise)
    IN  ToUint8(IF v > 255 THEN 255 ELSE v)

addNoise(v_in, noise) ==
    LET v == ToInt16(v_in + noise)
    IN  ToUint8(IF v > 255 THEN 255 ELSE IF v < 0 THEN 0 ELSE v)

\* The argument expression rnd * bpp_mul - bpp_bias, converted to int8_t.
NoiseOffset(rnd, bpp_mul, bpp_bias) ==
    ToInt8(Trunc(FSub(FMul(rnd, FromInt(bpp_mul)), FromInt(bpp_bias))))

\* The argument expression (1.0f - rnd) * bpp_mul - bpp_bias, converted to int8_t.
NoiseOffsetInv(rnd, bpp_mul, bpp_bias) ==
    ToInt8(Trunc(FSub(FMul(FSub(FromInt(1), rnd), FromInt(bpp_mul)),
                      FromInt(bpp_bias))))

\* The four assignments of ditherInterleavedGradientRGBA4444's loop body.
NoisePixel4444(px, rnd) ==
    LET bpp_mul == 16
        bpp_bias == ToUint8(bpp_mul \div 2)
    IN  << addNoise(px[1], NoiseOffset(rnd, bpp_mul, bpp_bias)),
           addNoise(px[2], NoiseOffsetInv(rnd, bpp_mul, bpp_bias)),
           addNoise(px[3], NoiseOffset(rnd, bpp_mul, bpp_bias)),
           addNoise(px[4], NoiseOffset(rnd, bpp_mul, bpp_bias)) >>

\* The 565 loop body with the 4444 pass's step and bias (16 / 8) left in.
NoisePixel565_step16(px, rnd) ==
    << addNoise(px[1], NoiseOffset(rnd, 16, 8)),
       addNoise(px[2], NoiseOffsetInv(rnd, 16, 8)),
       addNoise(px[3], NoiseOffset(rnd, 16, 8)),
       px[4] >>

\* The three assignments of ditherInterleavedGradientRGBx565's loop body.
NoisePixel565(px, rnd) ==
    LET bpp_mul_5 == 8
        bpp_bias_5 == ToUint8(bpp_mul_5 \div 2)
        bpp_mul_6 == 4
        bpp_bias_6 == ToUint8(bpp_mul_6 \div 2)
    IN  << addNoise(px[1], NoiseOffset(rnd, bpp_mul_5, bpp_bias_5)),
           addNoise(px[2], NoiseOffsetInv(rnd, bpp_mul_6, bpp_bias_6)),
           addNoise(px[3], NoiseOffset(rnd, bpp_mul_5, bpp_bias_5)),
           px[4] >>

\* The pixel at C offset k of a 4-channel buffer.
PixelAt(data, k) == << data[k + 1], data[k + 2], data[k + 3], data[k + 4] >>

\* The buffer with the four channels at C offset k replaced by px.
WithPixel(data, k, px) ==
    [j \in 1..Len(data) |-> IF j \in (k + 1)..(k + 4) THEN px[j - k] ELSE data[j]]

\* The RGBA4444 loop body without `data += 4`: every pixel lands on the first.
dither4444Pixel_noAdvance(data, wd, x, y) ==
    LET rnd == InterleavedGradientNoise(FromInt(x), FromInt(y))
    IN  WithPixel(data, 0, NoisePixel4444(PixelAt(data, 0), rnd))

\* Loop body of ditherInterleavedGradientRGBA4444 for the pixel at (x, y).
dither4444Pixel(data, wd, x, y) ==
    LET k == 4 * (y * wd + x)
        rnd == InterleavedGradientNoise(FromInt(x), FromInt(y))
    IN  WithPixel(data, k, NoisePixel4444(PixelAt(data, k), rnd))

\* Loop body of ditherInterleavedGradientRGBx565 for the pixel at (x, y).
dither565Pixel(data, wd, x, y) ==
    LET k == 4 * (y * wd + x)
        rnd == InterleavedGradientNoise(FromInt(x), FromInt(y))
    IN  WithPixel(data, k, NoisePixel565(PixelAt(data, k), rnd))

RECURSIVE dither4444From(_, _, _, _)
dither4444From(data, wd, ht, i) ==
    IF i >= wd * ht THEN data
    ELSE dither4444From(dither4444Pixel(data, wd, i % wd, i \div wd),
                        wd, ht, i + 1)

ditherInterleavedGradientRGBA4444(data, wd, ht) ==
    dither4444From(data, wd, ht, 0)

RECURSIVE dither565From(_, _, _, _)
dither565From(data, wd, ht, i) ==
    IF i >= wd * ht THEN data
    ELSE dither565From(dither565Pixel(data, wd, i % wd, i \div wd),
                       wd, ht, i + 1)

ditherInterleavedGradientRGBx565(data, wd, ht) ==
    dither565From(data, wd, ht, 0)

\* ------------------------------------------------------------------------
\* The codecs
\* ------------------------------------------------------------------------
\* Iteration i of RGBA8888ToRGB565: one 16-bit store into color_rgb.
Pack565Pixel(data, color_rgb, i) ==
    LET red == Load(data, 4 * i)
        green == Load(data, 4 * i + 1)
        blue == Load(data, 4 * i + 2)
        r == ToUint16((((red \div 8) % 32)) * 2048)
        g == ToUint16((((green \div 4) % 64)) * 32)
        b == ToUint16((blue \div 8) % 32)
    IN  Store(color_rgb, i, r + g + b)

\* RGB565ToRGBA8888 reading the fields in the order b, g, r.
Unpack565Pixel_bgr(data, color_rgba, i) ==
    LET c == Load(data, i)
        b5 == (c \div 2048) % 32
        g6 == (c \div 32) % 64
        r5 == c % 32
    IN  WithPixel(color_rgba, 4 * i,
                  << ToUint8((r5 * 255 + 15) \div 31),
                     ToUint8((g6 * 255 + 31) \div 63),
                     ToUint8((b5 * 255 + 15) \div 31),
                     255 >>)

\* Iteration i of RGB565ToRGBA8888: four byte stores into color_rgba.
Unpack565Pixel(data, color_rgba, i) ==
    LET c == Load(data, i)
        r5 == (c \div 2048) % 32
        g6 == (c \div 32) % 64
        b5 == c % 32
    IN  WithPixel(color_rgba, 4 * i,
                  << ToUint8((r5 * 255 + 15) \div 31),
                     ToUint8((g6 * 255 + 31) \div 63),
                     ToUint8((b5 * 255 + 15) \div 31),
                     255 >>)

\* RGBA8888ToRGBA4444 masking the low four bits (& 0xf) instead of shifting.
Pack4444Pixel_lowBits(data, color_rgba, i) ==
    LET r == ToUint16((Load(data, 4 * i) % 16) * 4096)
        g == ToUint16((Load(data, 4 * i + 1) % 16) * 256)
        b == ToUint16((Load(data, 4 * i + 2) % 16) * 16)
        a == ToUint16(Load(data, 4 * i + 3) % 16)
    IN  Store(color_rgba, i, r + g + b + a)

\* Iteration i of RGBA8888ToRGBA4444.  The fields occupy disjoint bits, so
\* the bitwise or of r, g, b, a is their sum.
Pack4444Pixel(data, color_rgba, i) ==
    LET r == ToUint16((Load(data, 4 * i) \div 16) * 4096)
        g == ToUint16((Load(data, 4 * i + 1) \div 16) * 256)
        b == ToUint16((Load(data, 4 * i + 2) \div 16) * 16)
        a == ToUint16(Load(data, 4 * i + 3) \div 16)
    IN  Store(color_rgba, i, r + g + b + a)

\* Iteration i of RGBA4444ToRGBA8888.
Unpack4444Pixel(data, color_rgba, i) ==
    LET c == Load(data, i)
        r4 == (c \div 4096) % 16
        g4 == (c \div 256) % 16
        b4 == (c \div 16) % 16
        a4 == c % 16
    IN  WithPixel(color_rgba, 4 * i,
                  << ToUint8((r4 * 255 + 7) \div 15),
                     ToUint8((g4 * 255 + 7) \div 15),
                     ToUint8((b4 * 255 + 7) \div 15),
                     ToUint8((a4 * 255 + 7) \div 15) >>)

RECURSIVE Pack565From(_, _, _, _)
Pack565From(data, n, out, i) ==
    IF i >= n THEN out ELSE Pack565From(data, n, Pack565Pixel(data, out, i), i + 1)

RGBA8888ToRGB565(data, wd, ht, color_rgb) ==
    Pack565From(data, wd * ht, color_rgb, 0)

RECURSIVE Unpack565From(_, _, _, _)
Unpack565From(data, n, out, i) ==
    IF i >= n THEN out ELSE Unpack565From(data, n, Unpack565Pixel(data, out, i), i + 1)

RGB565ToRGBA8888(data, wd, ht, color_rgba) ==
    Unpack565From(data, wd * ht, color_rgba, 0)

RECURSIVE Pack4444From(_, _, _, _)
Pack4444From(data, n, out, i) ==
    IF i >= n THEN out ELSE Pack4444From(data, n, Pack4444Pixel(data, out, i), i + 1)

RGBA8888ToRGBA4444(data, wd, ht, color_rgba) ==
    Pack4444From(data, wd * ht, color_rgba, 0)

RECURSIVE Unpack4444From(_, _, _, _)
Unpack4444From(data, n, out, i) ==
    IF i >= n THEN out ELSE Unpack4444From(data, n, Unpack4444Pixel(data, out, i), i + 1)

RGBA4444ToRGBA8888(data, wd, ht, color_rgba) ==
    Unpack4444From(data, wd * ht, color_rgba, 0)

\* ------------------------------------------------------------------------
\* main()
\* ------------------------------------------------------------------------
NoImage == [w |-> 0, h |-> 0, ch |-> 0, data |-> << >>]

\* Pixel colours the decoded images are made of.
Colours ==
    << << 0, 0, 0, 255 >>, << 255, 255, 255, 255 >>, << 128, 64, 32, 255 >>,
       << 10, 200, 50, 0 >>, << 200, 100, 50, 255 >> >>

\* A w x h image of ch channels, row-major; pixel i has colour start + i.
ImageData(w, h, ch, start) ==
    [j \in 1..(w * h * ch) |->
        Colours[((start + (j - 1) \div ch) % Len(Colours)) + 1][((j - 1) % ch) + 1]]

\* The images stbi_load returns in the model (channel counts 1 to 4).
DecodedImages ==
    { [w |-> w, h |-> h, ch |-> ch, data |-> ImageData(w, h, ch, start)] :
        w \in 1..MaxDim, h \in 1..MaxDim, ch \in 1..4,
        start \in 0..(Len(Colours) - 1) }

\* Contents of freshly malloc'ed memory: any byte, the same in every cell here.
JunkBytes == {0, 205}

InitMain ==
    /\ pc = "args"
    /\ decoded = NoImage
    /\ numchannels = 0 /\ width = 0 /\ height = 0
    /\ image_input = << >>
    /\ image_output_16bit = << >>
    /\ image_output_32bit = << >>
    /\ write_result = -1
    /\ file_written = FALSE
    /\ output_file = << >>
    /\ stdout_wrote = FALSE
    /\ exit_status = -1

IdleCall == /\ call = [fn |-> "none"] /\ ret = << >>
IdleBayer == /\ bayer_pc = "idle" /\ bayer_n = 0 /\ bayer_M = << >>
IdlePar == /\ todo = {} /\ pass_src = << >>

Init == InitMain /\ IdleCall /\ IdleBayer /\ IdlePar

\* if (argc > 1) path = argv[1]; if (!path) { ...; return 1; }
ParseArgs ==
    /\ pc = "args"
    /\ \E argc \in 1..2 :
          IF argc > 1
          THEN /\ pc' = "load"
               /\ exit_status' = exit_status
          ELSE /\ pc' = "exit"
               /\ exit_status' = 1
    /\ UNCHANGED << decoded, numchannels, width, height, image_input,
                    image_output_16bit, image_output_32bit, write_result,
                    file_written, output_file, stdout_wrote >>
    /\ UNCHANGED << callVars, bayerVars, parVars >>

\* stbi_load succeeds with some image
LoadImage ==
    /\ pc = "load"
    /\ \E img \in DecodedImages :
          /\ decoded' = img
          /\ width' = img.w /\ height' = img.h /\ numchannels' = img.ch
          /\ image_input' = img.data
    /\ pc' = "malloc"
    /\ UNCHANGED << image_output_16bit, image_output_32bit, write_result,
                    file_written, output_file, stdout_wrote, exit_status >>
    /\ UNCHANGED << callVars, bayerVars, parVars >>

\* stbi_load returns 0: if (!image_input) { ...; return 1; }
LoadFails ==
    /\ pc = "load"
    /\ pc' = "exit"
    /\ exit_status' = 1
    /\ UNCHANGED << decoded, numchannels, width, height, image_input,
                    image_output_16bit, image_output_32bit, write_result,
                    file_written, output_file, stdout_wrote >>
    /\ UNCHANGED << callVars, bayerVars, parVars >>

\* The two malloc calls; the memory holds whatever it held.
AllocOutputs ==
    /\ pc = "malloc"
    /\ \E junk \in JunkBytes :
          /\ image_output_16bit' = [i \in 1..(width * height) |-> junk * 257]
          /\ image_output_32bit' = [i \in 1..(width * height * 4) |-> junk]
    /\ pc' = "dispatch"
    /\ UNCHANGED << decoded, numchannels, width, height, image_input, write_result,
                    file_written, output_file, stdout_wrote, exit_status >>
    /\ UNCHANGED << callVars, bayerVars, parVars >>

\* if (numchannels == 4) ditherInterleavedGradientRGBA4444(image_input, ...)
Dither4444 ==
    /\ pc = "dispatch"
    /\ numchannels = 4
    /\ image_input' = ditherInterleavedGradientRGBA4444(image_input, width, height)
    /\ pc' = "pack4444"
    /\ UNCHANGED << decoded, numchannels, width, height, image_output_16bit,
                    image_output_32bit, write_result, file_written, output_file,
                    stdout_wrote, exit_status >>
    /\ UNCHANGED << callVars, bayerVars, parVars >>

Pack4444 ==
    /\ pc = "pack4444"
    /\ image_output_16bit' =
          RGBA8888ToRGBA4444(image_input, width, height, image_output_16bit)
    /\ pc' = "unpack4444"
    /\ UNCHANGED << decoded, numchannels, width, height, image_input,
                    image_output_32bit, write_result, file_written, output_file,
                    stdout_wrote, exit_status >>
    /\ UNCHANGED << callVars, bayerVars, parVars >>

Unpack4444 ==
    /\ pc = "unpack4444"
    /\ image_output_32bit' =
          RGBA4444ToRGBA8888(image_output_16bit, width, height, image_output_32bit)
    /\ pc' = "write"
    /\ UNCHANGED << decoded, numchannels, width, height, image_input,
                    image_output_16bit, write_result, file_written, output_file,
                    stdout_wrote, exit_status >>
    /\ UNCHANGED << callVars, bayerVars, parVars >>

\* The loop that makes the 3-channel image RGBA8888 with alpha 255.
ExpandedTo8888(data, n) ==
    [j \in 1..(n * 4) |->
        IF (j - 1) % 4 = 3 THEN 255 ELSE data[((j - 1) \div 4) * 3 + ((j - 1) % 4) + 1]]

\* else if (numchannels == 3): expand, free the decoder's buffer, use the new one
Expand ==
    /\ pc = "dispatch"
    /\ numchannels = 3
    /\ image_input' = ExpandedTo8888(image_input, width * height)
    /\ pc' = "dither565"
    /\ UNCHANGED << decoded, numchannels, width, height, image_output_16bit,
                    image_output_32bit, write_result, file_written, output_file,
                    stdout_wrote, exit_status >>
    /\ UNCHANGED << callVars, bayerVars, parVars >>

Dither565 ==
    /\ pc = "dither565"
    /\ image_input' = ditherInterleavedGradientRGBx565(image_input, width, height)
    /\ pc' = "pack565"
    /\ UNCHANGED << decoded, numchannels, width, height, image_output_16bit,
                    image_output_32bit, write_result, file_written, output_file,
                    stdout_wrote, exit_status >>
    /\ UNCHANGED << callVars, bayerVars, parVars >>

Pack565 ==
    /\ pc = "pack565"
    /\ image_output_16bit' =
          RGBA8888ToRGB565(image_input, width, height, image_output_16bit)
    /\ pc' = "unpack565"
    /\ UNCHANGED << decoded, numchannels, width, height, image_input,
                    image_output_32bit, write_result, file_written, output_file,
                    stdout_wrote, exit_status >>
    /\ UNCHANGED << callVars, bayerVars, parVars >>

Unpack565 ==
    /\ pc = "unpack565"
    /\ image_output_32bit' =
          RGB565ToRGBA8888(image_output_16bit, width, height, image_output_32bit)
    /\ pc' = "write"
    /\ UNCHANGED << decoded, numchannels, width, height, image_input,
                    image_output_16bit, write_result, file_written, output_file,
                    stdout_wrote, exit_status >>
    /\ UNCHANGED << callVars, bayerVars, parVars >>

\* Neither branch of the if / else if is taken.
SkipDither ==
    /\ pc = "dispatch"
    /\ numchannels \notin {3, 4}
    /\ pc' = "write"
    /\ UNCHANGED << decoded, numchannels, width, height, image_input,
                    image_output_16bit, image_output_32bit, write_result,
                    file_written, output_file, stdout_wrote, exit_status >>
    /\ UNCHANGED << callVars, bayerVars, parVars >>

\* stbi_write_png(...), its result dropped; printf("Wrote ...")
WritePng ==
    /\ pc = "write"
    /\ \E ok \in {0, 1} :
          /\ write_result' = ok
          /\ file_written' = (ok = 1)
          /\ output_file' = IF ok = 1 THEN image_output_32bit ELSE << >>
    /\ stdout_wrote' = TRUE
    /\ pc' = "return"
    /\ UNCHANGED << decoded, numchannels, width, height, image_input,
                    image_output_16bit, image_output_32bit, exit_status >>
    /\ UNCHANGED << callVars, bayerVars, parVars >>

\* the three free calls; return 0
ReturnZero ==
    /\ pc = "return"
    /\ exit_status' = 0
    /\ pc' = "exit"
    /\ UNCHANGED << decoded, numchannels, width, height, image_input,
                    image_output_16bit, image_output_32bit, write_result,
                    file_written, output_file, stdout_wrote >>
    /\ UNCHANGED << callVars, bayerVars, parVars >>

Next ==
    \/ ParseArgs \/ LoadImage \/ LoadFails \/ AllocOutputs
    \/ Dither4444 \/ Pack4444 \/ Unpack4444
    \/ Expand \/ Dither565 \/ Pack565 \/ Unpack565
    \/ SkipDither \/ WritePng \/ ReturnZero

Spec == Init /\ [][Next]_vars

\* ------------------------------------------------------------------------
\* Properties of main()
\* ------------------------------------------------------------------------
\* The pipeline stages are over: image_output_32bit is what gets written.
StagesOver == pc \in {"write", "return", "exit"} /\ decoded # NoImage

\* C1: a decoded image whose channel count is neither 3 nor 4 ends the run
\* with a non-zero exit status, and neither an output file is written nor
\* success reported from an output buffer no stage has filled.
C1_UnsupportedChannelCountRejected ==
    (decoded # NoImage /\ decoded.ch \notin {3, 4})
        => /\ ~file_written
           /\ ~stdout_wrote
           /\ (pc = "exit" => exit_status \notin {0})

\* The 1x1 three-channel image with the pixel (200,100,50).
Image1x1 == [w |-> 1, h |-> 1, ch |-> 3, data |-> << 200, 100, 50 >>]

\* C2 as stated: the RGB565 path turns the 1x1 image (200,100,50) into a
\* pixel with alpha 255, |R-200| <= 8, |G-100| <= 4 and |B-50| <= 8.
C2_Within8_4_8 ==
    (StagesOver /\ decoded = Image1x1)
        => /\ Len(image_output_32bit) = 4
           /\ image_output_32bit[4] = 255
           /\ Abs(image_output_32bit[1] - 200) <= 8
           /\ Abs(image_output_32bit[2] - 100) <= 4
           /\ Abs(image_output_32bit[3] - 50) <= 8

\* C2 amended: the RGB565 path turns the 1x1 image (200,100,50) into a pixel
\* with alpha 255, |R-200| <= 8, |G-100| <= 4 and |B-50| <= 9.
C2_Within8_4_9 ==
    (StagesOver /\ decoded = Image1x1)
        => /\ Len(image_output_32bit) = 4
           /\ image_output_32bit[4] = 255
           /\ Abs(image_output_32bit[1] - 200) <= 8
           /\ Abs(image_output_32bit[2] - 100) <= 4
           /\ Abs(image_output_32bit[3] - 50) <= 9

\* The 1x1 image has gone through expand, dither, pack and unpack.
C2_Witness ==
    /\ pc = "write" /\ decoded = Image1x1
    /\ image_input = << 196, 102, 46, 255 >>
    /\ image_output_32bit = << 197, 101, 41, 255 >>

\* The 2x2 four-channel image of the RGBA4444 scenario.
Image2x2 ==
    [w |-> 2, h |-> 2, ch |-> 4,
     data |-> << 0, 0, 0, 255,  255, 255, 255, 255,
                 128, 64, 32, 255,  10, 200, 50, 0 >>]

\* C3: the RGBA4444 path turns the 2x2 image into a 2x2 four-channel output
\* whose every channel, alpha included, is within 16 of the input value.
C3_Within16 ==
    (StagesOver /\ decoded = Image2x2)
        => /\ Len(image_output_32bit) = 2 * 2 * 4
           /\ \A j \in 1..16 :
                 Abs(image_output_32bit[j] - decoded.data[j]) <= 16

\* The 2x2 image has gone through dither, pack and unpack.
C3_Witness ==
    /\ pc = "write" /\ decoded = Image2x2
    /\ image_input # decoded.data
    /\ image_output_32bit # decoded.data
    /\ Len(image_output_16bit) = 4

\* C8: exit status 0 only with the PNG written; status 1 and no file without
\* a path or with a failed decode; a non-zero status when the encoder fails.
\* Stated of the runs whose image, if one was decoded, has 3 or 4 channels.
C8_ExitZeroOnlyIfWritten ==
    (pc = "exit" /\ (decoded = NoImage \/ decoded.ch \in {3, 4}))
        => /\ (exit_status = 0 => file_written)
           /\ (decoded = NoImage => exit_status = 1 /\ ~file_written)
           /\ (write_result = 0 => exit_status \notin {0})

\* ------------------------------------------------------------------------
\* The codecs on every channel value
\* ------------------------------------------------------------------------
\* Values of the channels that are not swept.
ProbeBytes == {0, 165, 255}

\* RGBA pixels: one channel takes every 8-bit value, the others the probes.
SweepPixels ==
    { [j \in 1..4 |-> IF j = c THEN v ELSE others[j]] :
        c \in 1..4, v \in 0..255, others \in [1..4 -> ProbeBytes] }

\* main() about to pack a 1x1 working buffer holding any of the sweep pixels.
CodecInit ==
    /\ \E ch \in {3, 4} :
          /\ numchannels = ch
          /\ pc = (IF ch = 4 THEN "pack4444" ELSE "pack565")
    /\ width = 1 /\ height = 1
    /\ decoded = NoImage
    /\ image_input \in SweepPixels
    /\ \E junk \in JunkBytes :
          /\ image_output_16bit = << junk * 257 >>
          /\ image_output_32bit = << junk, junk, junk, junk >>
    /\ write_result = -1
    /\ file_written = FALSE
    /\ output_file = << >>
    /\ stdout_wrote = FALSE
    /\ exit_status = -1
    /\ IdleCall /\ IdleBayer /\ IdlePar

CodecNext == Pack4444 \/ Unpack4444 \/ Pack565 \/ Unpack565

CodecSpec == CodecInit /\ [][CodecNext]_vars

\* C4: RGB565ToRGBA8888(RGBA8888ToRGB565(r,g,b,a)) = (r',g',b',a') has
\* |r'-r| <= 9, |g'-g| <= 5, |b'-b| <= 9, a' = 255 whatever a is, and
\* r', g', b' in 0..255.
C4_RGB565RoundTrip ==
    (pc = "write" /\ numchannels = 3)
        => /\ Len(image_output_32bit) = 4
           /\ \A j \in 1..3 : image_output_32bit[j] \in 0..255
           /\ Abs(image_output_32bit[1] - image_input[1]) <= 9
           /\ Abs(image_output_32bit[2] - image_input[2]) <= 5
           /\ Abs(image_output_32bit[3] - image_input[3]) <= 9
           /\ image_output_32bit[4] = 255

\* An RGB565 round trip that loses something, from an alpha that is not 255.
C4_Witness ==
    /\ pc = "write" /\ numchannels = 3
    /\ image_input[4] = 0
    /\ image_output_32bit[4] = 255
    /\ image_output_32bit[1] # image_input[1]

\* C5: RGBA4444ToRGBA8888(RGBA8888ToRGBA4444(pixel)) gives, per channel, a
\* value in 0..255 within 17 of the original; each packed field is exactly
\* the top four bits of its own channel.
C5_RGBA4444RoundTrip ==
    /\ (pc \in {"unpack4444", "write"} /\ numchannels = 4)
          => /\ Len(image_output_16bit) = 1
             /\ image_output_16bit[1] \in 0..65535
             /\ \A j \in 1..4 :
                   (image_output_16bit[1] \div (16 ^ (4 - j))) % 16
                      = image_input[j] \div 16
    /\ (pc = "write" /\ numchannels = 4)
          => /\ Len(image_output_32bit) = 4
             /\ \A j \in 1..4 :
                   /\ image_output_32bit[j] \in 0..255
                   /\ Abs(image_output_32bit[j] - image_input[j]) <= 17

\* An RGBA4444 round trip of a pixel whose channels differ and lose bits.
C5_Witness ==
    /\ pc = "write" /\ numchannels = 4
    /\ image_input[1] = 0 /\ image_input[2] = 255 /\ image_input[3] = 0
    /\ image_input[4] \notin {0, 255}
    /\ image_output_32bit[4] # image_input[4]
    /\ image_output_32bit[1] = 0 /\ image_output_32bit[2] = 255

\* ------------------------------------------------------------------------
\* The quantizer functions called directly
\* ------------------------------------------------------------------------
\* The float k / 2^NoiseBits, a noise value in [0, 1).
NoiseValue(k) == FDivPow2(FromInt(k), 2 ^ NoiseBits)

\* The float j/64 - 0.5, a threshold in [-0.5, 0.5).
BiasValue(j) == FSub(FDivPow2(FromInt(j), 64), FDivPow2(FromInt(1), 2))

\* Each run makes one call.
QuantInit == InitMain /\ IdleCall /\ IdleBayer /\ IdlePar

CallAddNoise ==
    /\ call.fn = "none"
    /\ \E v \in 0..255, noise \in -128..127 :
          /\ call' = [fn |-> "addNoise", v |-> v, noise |-> noise]
          /\ ret' = << addNoise(v, noise) >>
    /\ UNCHANGED << mainVars, bayerVars, parVars >>

CallDitherBayerValue ==
    /\ call.fn = "none"
    /\ \E v \in 0..255, n \in {4, 8}, j \in 0..63 :
          /\ call' = [fn |-> "ditherBayerValue", v |-> v, n |-> n, j |-> j]
          /\ ret' = << ditherBayerValue(v, BiasValue(j), BayerScale(n)) >>
    /\ UNCHANGED << mainVars, bayerVars, parVars >>

\* The body of the RGBA4444 dither loop on a pixel, for any noise value.
CallNoisePixel4444 ==
    /\ call.fn = "none"
    /\ \E v \in 0..255, k \in 0..(2 ^ NoiseBits - 1) :
          /\ call' = [fn |-> "NoisePixel4444", v |-> v, k |-> k]
          /\ ret' = NoisePixel4444(<< v, v, v, v >>, NoiseValue(k))
    /\ UNCHANGED << mainVars, bayerVars, parVars >>

\* The body of the RGB565 dither loop on a pixel, for any noise value.
CallNoisePixel565 ==
    /\ call.fn = "none"
    /\ \E v \in 0..255, k \in 0..(2 ^ NoiseBits - 1) :
          /\ call' = [fn |-> "NoisePixel565", v |-> v, k |-> k]
          /\ ret' = NoisePixel565(<< v, v, v, v >>, NoiseValue(k))
    /\ UNCHANGED << mainVars, bayerVars, parVars >>

QuantNext ==
    \/ CallAddNoise \/ CallDitherBayerValue
    \/ CallNoisePixel4444 \/ CallNoisePixel565

QuantSpec == QuantInit /\ [][QuantNext]_vars

Clamp(n, lo, hi) == IF n < lo THEN lo ELSE IF n > hi THEN hi ELSE n

\* C6: addNoise(v, offset) is min(255, max(0, v + offset)) for v in 0..255
\* and offset in -128..127; ditherBayerValue(v, m, 255/n) is in 0..255 for
\* n in {4, 8}; every channel a dither loop body writes back is in 0..255.
C6_Saturation ==
    /\ call.fn = "addNoise" => ret = << Clamp(call.v + call.noise, 0, 255) >>
    /\ call.fn = "ditherBayerValue" => Len(ret) = 1 /\ ret[1] \in 0..255
    /\ call.fn \in {"NoisePixel4444", "NoisePixel565"}
          => Len(ret) = 4 /\ \A j \in 1..4 : ret[j] \in 0..255

\* addNoise has saturated at 255 where a byte sum would have wrapped.
C6_Witness ==
    /\ call.fn = "addNoise"
    /\ call.v + call.noise > 255
    /\ ret = << 255 >>

\* The integers nearest to noise * step - step / 2 for noise = k / 2^NoiseBits
\* (two of them when the bias lies halfway between integers).
NearestBias(k, step) ==
    LET num == k * step - (step \div 2) * 2 ^ NoiseBits
    IN  { o \in (-step)..step : 2 * Abs(o * 2 ^ NoiseBits - num) <= 2 ^ NoiseBits }

\* The values clamp(v + round(noise * step - step / 2), 0, 255) allows.
Dithered(v, k, step) == { Clamp(v + o, 0, 255) : o \in NearestBias(k, step) }

\* C7: each dither loop body writes back clamp(v + round(noise * step -
\* step / 2), 0, 255), with 1 - noise for noise in the green channel: step 16
\* in the RGBA4444 pass, 8 (red, blue) and 4 (green) in the RGB565 pass.
C7_RoundToNearest ==
    /\ call.fn = "NoisePixel4444"
          => /\ ret[1] \in Dithered(call.v, call.k, 16)
             /\ ret[2] \in Dithered(call.v, 2 ^ NoiseBits - call.k, 16)
             /\ ret[3] \in Dithered(call.v, call.k, 16)
             /\ ret[4] \in Dithered(call.v, call.k, 16)
    /\ call.fn = "NoisePixel565"
          => /\ ret[1] \in Dithered(call.v, call.k, 8)
             /\ ret[2] \in Dithered(call.v, 2 ^ NoiseBits - call.k, 4)
             /\ ret[3] \in Dithered(call.v, call.k, 8)
             /\ ret[4] = call.v

\* ------------------------------------------------------------------------
\* The Bayer threshold map
\* ------------------------------------------------------------------------
\* The float buffer malloc'ed for M holds n*n arbitrary values.
BayerInit ==
    /\ InitMain /\ IdleCall /\ IdlePar
    /\ bayer_pc = "compute"
    /\ bayer_n \in {4, 8}
    /\ \E junk \in {FZero, FromInt(-7)} :
          bayer_M = [i \in 1..(bayer_n * bayer_n) |-> junk]

\* computeBayerThresholdMap(n, M)
ComputeMap ==
    /\ bayer_pc = "compute"
    /\ bayer_M' = computeBayerThresholdMap(bayer_n)
    /\ bayer_pc' = "ready"
    /\ UNCHANGED << bayer_n, mainVars, callVars, parVars >>

\* getM(n, M, x, y)
CallGetM ==
    /\ bayer_pc = "ready"
    /\ \E x \in 0..MaxCoord, y \in 0..MaxCoord :
          /\ call' = [fn |-> "getM", x |-> x, y |-> y]
          /\ ret' = << getM(bayer_n, bayer_M, x, y) >>
    /\ UNCHANGED << bayerVars, mainVars, parVars >>

BayerNext == ComputeMap \/ CallGetM

BayerSpec == BayerInit /\ [][BayerNext]_vars

\* f * d as an integer for a float f and d a power of two; d * d if f * d
\* is not an integer.
Scaled(f, d) ==
    LET sh == f.e + (BitLen(d) - 1)
    IN  IF f.m = 0 THEN 0
        ELSE IF sh >= 0 THEN f.s * f.m * 2 ^ sh
        ELSE IF sh < -30 \/ f.m % (2 ^ (-sh)) # 0 THEN d * d
        ELSE f.s * (f.m \div (2 ^ (-sh)))

\* The n x n window of pixel coordinates whose corner is (x, y).
Window(n, x, y) == (x..(x + n - 1)) \X (y..(y + n - 1))

\* C9: the n*n entries of M are a permutation of { k/(n*n) - 0.5 :
\* k in 0..n*n-1 }, and getM(n, M, x, y) = M[(y mod n)*n + (x mod n)] takes
\* each of these values exactly once over an n-by-n window of coordinates.
C9_BayerPermutation ==
    bayer_pc = "ready" =>
        LET n == bayer_n
            nn == bayer_n * bayer_n
            rank(f) == Scaled(f, nn) + nn \div 2
        IN  /\ Len(bayer_M) = nn
            /\ { rank(bayer_M[i]) : i \in 1..nn } = 0..(nn - 1)
            /\ \A i \in 1..nn :
                  /\ ~FLess(bayer_M[i], FNeg(FDivPow2(FromInt(1), 2)))
                  /\ FLess(bayer_M[i], FDivPow2(FromInt(1), 2))
            /\ call.fn = "getM" =>
                  /\ ret[1] = bayer_M[(call.y % n) * n + (call.x % n) + 1]
                  /\ \A k \in 0..(nn - 1) :
                        Cardinality({ p \in Window(n, call.x, call.y) :
                            rank(getM(n, bayer_M, p[1], p[2])) = k }) = 1

\* A lookup past the first tile, in the 8 x 8 map.
C9_Witness ==
    /\ bayer_pc = "ready" /\ bayer_n = 8
    /\ call.fn = "getM" /\ call.x = 9 /\ call.y = 8
    /\ ret = << FSub(FDivPow2(FromInt(32), 64), FDivPow2(FromInt(1), 2)) >>

\* ------------------------------------------------------------------------
\* The per-pixel loops with their iterations in any order
\* ------------------------------------------------------------------------
AllPixels == 0..(width * height - 1)

\* main() before its dither call, on a 3- or 4-channel image; the iterations
\* of each of the three loops are then taken in any order.
ParInit ==
    /\ decoded \in { img \in DecodedImages : img.ch \in {3, 4} }
    /\ width = decoded.w /\ height = decoded.h /\ numchannels = decoded.ch
    /\ image_input = (IF decoded.ch = 4 THEN decoded.data
                      ELSE ExpandedTo8888(decoded.data, decoded.w * decoded.h))
    /\ \E junk \in JunkBytes :
          /\ image_output_16bit = [i \in 1..(width * height) |-> junk * 257]
          /\ image_output_32bit = [i \in 1..(width * height * 4) |-> junk]
    /\ pc = "par_dither"
    /\ todo = AllPixels
    /\ pass_src = image_input
    /\ write_result = -1
    /\ file_written = FALSE
    /\ output_file = << >>
    /\ stdout_wrote = FALSE
    /\ exit_status = -1
    /\ IdleCall /\ IdleBayer

\* One iteration of the dither loop, for any pixel still to do.
ParDitherPixel ==
    /\ pc = "par_dither"
    /\ \E i \in todo :
          /\ image_input' =
                (IF numchannels = 4
                 THEN dither4444Pixel(image_input, width, i % width, i \div width)
                 ELSE dither565Pixel(image_input, width, i % width, i \div width))
          /\ todo' = todo \ {i}
    /\ UNCHANGED << pc, decoded, numchannels, width, height, image_output_16bit,
                    image_output_32bit, write_result, file_written, output_file,
                    stdout_wrote, exit_status, pass_src >>
    /\ UNCHANGED << callVars, bayerVars >>

\* One iteration of the pack loop.
ParPackPixel ==
    /\ pc = "par_pack"
    /\ \E i \in todo :
          /\ image_output_16bit' =
                (IF numchannels = 4
                 THEN Pack4444Pixel(image_input, image_output_16bit, i)
                 ELSE Pack565Pixel(image_input, image_output_16bit, i))
          /\ todo' = todo \ {i}
    /\ UNCHANGED << pc, decoded, numchannels, width, height, image_input,
                    image_output_32bit, write_result, file_written, output_file,
                    stdout_wrote, exit_status, pass_src >>
    /\ UNCHANGED << callVars, bayerVars >>

\* One iteration of the unpack loop.
ParUnpackPixel ==
    /\ pc = "par_unpack"
    /\ \E i \in todo :
          /\ image_output_32bit' =
                (IF numchannels = 4
                 THEN Unpack4444Pixel(image_output_16bit, image_output_32bit, i)
                 ELSE Unpack565Pixel(image_output_16bit, image_output_32bit, i))
          /\ todo' = todo \ {i}
    /\ UNCHANGED << pc, decoded, numchannels, width, height, image_input,
                    image_output_16bit, write_result, file_written, output_file,
                    stdout_wrote, exit_status, pass_src >>
    /\ UNCHANGED << callVars, bayerVars >>

\* A loop is over: the next function is called.
ParNextPass ==
    /\ todo = {}
    /\ pc \in {"par_dither", "par_pack", "par_unpack"}
    /\ pc' = (IF pc = "par_dither" THEN "par_pack"
              ELSE IF pc = "par_pack" THEN "par_unpack" ELSE "par_done")
    /\ todo' = (IF pc = "par_unpack" THEN {} ELSE AllPixels)
    /\ pass_src' = (IF pc = "par_dither" THEN image_output_16bit
                    ELSE image_output_32bit)
    /\ UNCHANGED << decoded, numchannels, width, height, image_input,
                    image_output_16bit, image_output_32bit, write_result,
                    file_written, output_file, stdout_wrote, exit_status >>
    /\ UNCHANGED << callVars, bayerVars >>

ParNext == ParDitherPixel \/ ParPackPixel \/ ParUnpackPixel \/ ParNextPass

ParSpec == ParInit /\ [][ParNext]_vars

\* The buffer the current loop writes.
PassTarget ==
    IF pc = "par_dither" THEN image_input
    ELSE IF pc = "par_pack" THEN image_output_16bit
    ELSE image_output_32bit

\* The cells of pixel i in that buffer.
PassCells(i) == IF pc = "par_pack" THEN {i + 1} ELSE (4 * i + 1)..(4 * i + 4)

\* What the sequential row-major loop makes of the buffers the pass started from.
PassSequential ==
    IF pc = "par_dither"
    THEN (IF numchannels = 4
          THEN ditherInterleavedGradientRGBA4444(pass_src, width, height)
          ELSE ditherInterleavedGradientRGBx565(pass_src, width, height))
    ELSE IF pc = "par_pack"
    THEN (IF numchannels = 4
          THEN RGBA8888ToRGBA4444(image_input, width, height, pass_src)
          ELSE RGBA8888ToRGB565(image_input, width, height, pass_src))
    ELSE (IF numchannels = 4
          THEN RGBA4444ToRGBA8888(image_output_16bit, width, height, pass_src)
          ELSE RGB565ToRGBA8888(image_output_16bit, width, height, pass_src))

\* C10: in the dither, pack and unpack loops the iteration for pixel i
\* writes only pixel i's cells, so with the iterations taken in any order
\* the cells of a pixel not yet done are untouched and the finished buffer
\* is the one the sequential row-major loop produces.
C10_OrderIndependent ==
    pc \in {"par_dither", "par_pack", "par_unpack"} =>
        /\ \A i \in todo : \A c \in PassCells(i) : PassTarget[c] = pass_src[c]
        /\ todo = {} => PassTarget = PassSequential

\* Dither and pack are over and the unpack loop of a 2x2 image has done
\* pixels 1, 2 and 3 before pixel 0.
C10_Witness ==
    /\ pc = "par_unpack" /\ todo = {0}
    /\ width = 2 /\ height = 2
    /\ image_input # decoded.data
    /\ \E c \in 5..16 : image_output_32bit[c] # pass_src[c]

====
